---- MODULE Spec2Model ----
(***************************************************************************)
(* Model of the hand-written codecs of the wcif crate (src/src/types.rs):  *)
(* the attempt-result codec (module attempt_result), the activity-code    *)
(* codec and its specificity order (module activity_code).                 *)
(*                                                                         *)
(* The codecs are pure functions.  Each one is an operator computed the    *)
(* way the Rust code computes it; each specification draws the inputs of   *)
(* a codec in Init and applies the codec in its actions.                   *)
(*                                                                         *)
(* Machine integers.  TLC's integers are 32-bit signed, so a u32 is kept   *)
(* as two decimal limbs [hi, lo] with value hi * 100000 + lo, and an i64   *)
(* as [w, u]: its signed high 32-bit word w and its low word u (a u32),    *)
(* value w * 2^32 + u.  `x as u32` is then the low word, exactly.          *)
(*                                                                         *)
(* Strings are sequences of one-character strings.                         *)
(***************************************************************************)
EXTENDS Integers, Sequences, FiniteSets, TLC

VARIABLES
    pc,               \* position of the current run: "start", then the last step taken
    overflow_checks,  \* build profile: TRUE = arithmetic overflow panics (debug),
                      \* FALSE = it wraps (release)
    parse_puzzle_type, \* cargo feature: TRUE = EventId is OfficialEventId,
                      \* FALSE = EventId is String
    wire,             \* numeric codec: the JSON scalar handed to Deserialize
    attempt,          \* numeric codec: Result<AttemptResult<CentiSeconds>, Error>
    wire_out,         \* numeric codec: the i64 written by Serialize
    multi,            \* numeric codec: AttemptResult<MultiBlindAttemptResultValue>
    multi_out,        \* numeric codec: the i64 written for the multi-blind value
    lhs,              \* comparisons: self
    rhs,              \* comparisons: other
    ordering,         \* comparisons: what partial_cmp returned
    code,             \* string codecs: the value that is formatted
    text,             \* string codecs: the string (formatted, or handed to the parser)
    parsed            \* string codecs: Result of from_str

vars == <<pc, overflow_checks, parse_puzzle_type, wire, attempt, wire_out, multi, multi_out,
          lhs, rhs, ordering, code, text, parsed>>

\* A variable that the current run has not written.
Nil == [nil |-> TRUE]

(***************************************************************************)
(* Bounds of the input samples.                                            *)
(***************************************************************************)
\* Every packed decimal field is sampled at its MaxStep+1 lowest and highest values.
MaxStep == 2
\* High words of the i64 inputs beyond the u32 range: 1..MaxWide.
MaxWide == 2
\* Negative i64 inputs: -1 .. -MaxNeg, and the most negative ones.
MaxNeg == 5
\* Comparison inputs: solved/missed/attempted digits 0..RankStep.
RankStep == 2

(***************************************************************************)
(* Option, Result, Ordering                                                *)
(***************************************************************************)
None == [some |-> FALSE]
Some(x) == [some |-> TRUE, v |-> x]
IsSome(o) == o.some
Unwrap(o) == o.v

Ok(v) == [tag |-> "Ok", val |-> v]
Err(e) == [tag |-> "Err", err |-> e]
IsOk(r) == r.tag = "Ok"

\* A panic of the running thread (overflow check, unreachable!(), slice out of range).
Panic == [tag |-> "Panic"]
IsPanic(r) == r = Panic

\* std::cmp::Ordering
Reverse(o) == CASE o = "Less" -> "Greater" [] o = "Greater" -> "Less" [] OTHER -> "Equal"
Then(o, p) == IF o = "Equal" THEN p ELSE o
CmpInt(a, b) == IF a < b THEN "Less" ELSE IF a > b THEN "Greater" ELSE "Equal"

(***************************************************************************)
(* u32 and i64                                                             *)
(***************************************************************************)
U32(h, l) == [hi |-> h, lo |-> l]
\* from a number TLC can hold (0 .. 2^31-1)
U32Of(n) == [hi |-> n \div 100000, lo |-> n % 100000]
U32Max == U32(42949, 67295)
IsU32(u) == /\ u.hi \in 0..42949
            /\ u.lo \in 0..99999
            /\ (u.hi = 42949 => u.lo <= 67295)
\* the number, for a u32 below 2^31 (TLC reports an overflow otherwise)
U32Val(u) == u.hi * 100000 + u.lo
U32Lt(a, b) == a.hi < b.hi \/ (a.hi = b.hi /\ a.lo < b.lo)
U32Cmp(a, b) == Then(CmpInt(a.hi, b.hi), CmpInt(a.lo, b.lo))
\* u / d and u % d for a divisor d of 100000 with d >= 100: both fit TLC's integers
U32Div(u, d) == u.hi * (100000 \div d) + u.lo \div d
U32Rem(u, d) == u.lo % d
\* a - b for a >= b
LimbSub(a, b) == IF a.lo >= b.lo THEN U32(a.hi - b.hi, a.lo - b.lo)
                 ELSE U32(a.hi - b.hi - 1, a.lo + 100000 - b.lo)
\* a - b modulo 2^32
WrappingSub(a, b) == IF U32Lt(a, b)
                     THEN LimbSub(U32Max, LimbSub(LimbSub(b, a), U32Of(1)))
                     ELSE LimbSub(a, b)
\* `a - b` on u32 as the build computes it: a panic with overflow checks, else wrapped
SubU32(a, b) == IF U32Lt(a, b) /\ overflow_checks THEN Panic ELSE WrappingSub(a, b)
\* `x as u16`: x modulo 65536 (100000 mod 65536 = 34464)
AsU16(u) == (u.hi * 34464 + u.lo) % 65536

I64(hw, lw) == [w |-> hw, u |-> lw]
\* from a number TLC can hold
I64Of(n) == IF n >= 0 THEN I64(0, U32Of(n))
            ELSE I64(-1, LimbSub(U32Max, U32Of(-n - 1)))
\* `x as i64` for a u32 x: zero extension
I64FromU32(x) == I64(0, x)
\* `x as u32` for an i64 x: the low word
I64AsU32(x) == x.u
I64Positive(x) == x.w > 0 \/ (x.w = 0 /\ x.u # U32Of(0))

(***************************************************************************)
(* attempt_result: AttemptResult<ARV> and MultiBlindAttemptResultValue     *)
(***************************************************************************)
Skipped == [kind |-> "Skipped"]
DNF == [kind |-> "DNF"]
DNS == [kind |-> "DNS"]
Success(v) == [kind |-> "Success", v |-> v]
is_success(r) == r.kind = "Success"

\* struct MultiBlindAttemptResultValue; the fields are private, so every value is
\* one that MultiBlindFrom made
MultiBlind(a, s, t, o) == [attempted |-> a, solved |-> s, time |-> t, old_style |-> o]

\* MultiBlindFrom with the current layout's solved taken as the difference alone
MultiBlindFrom_SolvedIsDifference(value) ==
    IF U32Lt(value, U32(10000, 0))
    THEN LET missed == U32Rem(value, 100)
             value1 == U32Div(value, 100)
             difference == 99 - value1 \div 100000
         IN MultiBlind(difference + missed, difference, value1 % 100000, FALSE)
    ELSE LET value1 == U32Div(value, 100000)
         IN MultiBlind(value1 % 100, 99 - ((value1 \div 100) % 100),
                       U32Rem(value, 100000), TRUE)

\* MultiBlindFrom with the legacy layout's two digit pairs read in the other order
MultiBlindFrom_LegacyPairsSwapped(value) ==
    IF U32Lt(value, U32(10000, 0))
    THEN LET missed == U32Rem(value, 100)
             value1 == U32Div(value, 100)
             solved == (99 - value1 \div 100000) + missed
         IN MultiBlind(solved + missed, solved, value1 % 100000, FALSE)
    ELSE LET value1 == U32Div(value, 100000)
         IN MultiBlind((value1 \div 100) % 100, 99 - (value1 % 100),
                       U32Rem(value, 100000), TRUE)

\* impl From<CentiSecondAttemptResultValue> for MultiBlindAttemptResultValue
MultiBlindFrom(value) ==
    IF U32Lt(value, U32(10000, 0))
    THEN LET missed == U32Rem(value, 100)
             value1 == U32Div(value, 100)
             time == value1 % 100000
             value2 == value1 \div 100000
             difference == 99 - value2
             solved == difference + missed
             attempted == solved + missed
         IN MultiBlind(attempted, solved, time, FALSE)
    ELSE LET time == U32Rem(value, 100000)
             value1 == U32Div(value, 100000)
             attempted == value1 % 100
             value2 == value1 \div 100
             solved == 99 - (value2 % 100)
         IN MultiBlind(attempted, solved, time, TRUE)

\* MultiBlindAttemptResultValue::failed: attempted - solved on u32
failed(m) == SubU32(U32Of(m.attempted), U32Of(m.solved))

\* MultiBlindAttemptResultValue::points: solved() - failed() on u32
points(m) == IF IsPanic(failed(m)) THEN Panic ELSE SubU32(U32Of(m.solved), failed(m))

\* SerializeMultiBlindValue choosing the layout by the size of solved, not by old_style
SerializeMultiBlindValue_LayoutRederived(m) ==
    IF m.solved <= 50
    THEN I64FromU32(U32Of(1000000000 + (99 - m.solved) * 10000000
                          + m.attempted * 100000 + m.time))
    ELSE I64FromU32(U32Of((99 - (m.solved - (m.attempted - m.solved))) * 10000000
                          + m.time * 100 + (m.attempted - m.solved)))

\* impl Serialize for MultiBlindAttemptResultValue: the i64 written, or a panic.
\* The current-layout arm subtracts on u32; its operands are below 2^31 for every
\* value MultiBlindFrom makes with old_style = false.
SerializeMultiBlindValue(m) ==
    IF m.old_style
    THEN I64FromU32(U32Of(1000000000 + (99 - m.solved) * 10000000
                          + m.attempted * 100000 + m.time))
    ELSE IF IsPanic(points(m)) THEN Panic
    ELSE LET outer == SubU32(U32Of(99), points(m))
         IN IF IsPanic(outer) THEN Panic
            ELSE I64FromU32(U32Of(U32Val(outer) * 10000000 + m.time * 100
                                  + U32Val(failed(m))))

\* <ARV as From<u32>>::from for the payload type arv: u32 itself, or the multi-blind
\* value
ArvFrom(arv, x) == IF arv = "MultiBlind" THEN MultiBlindFrom(x) ELSE x

\* TryFromI64 with the catch-all arm accepting the value
TryFromI64_AcceptsAll(value, arv) ==
    CASE value = I64Of(-2) -> Ok(DNS)
      [] value = I64Of(-1) -> Ok(DNF)
      [] value = I64Of(0) -> Ok(Skipped)
      [] OTHER -> Ok(Success(ArvFrom(arv, I64AsU32(value))))

\* impl TryFrom<i64> for AttemptResult<ARV>, for the payload type arv
TryFromI64(value, arv) ==
    CASE value = I64Of(-2) -> Ok(DNS)
      [] value = I64Of(-1) -> Ok(DNF)
      [] value = I64Of(0) -> Ok(Skipped)
      [] I64Positive(value) -> Ok(Success(ArvFrom(arv, I64AsU32(value))))
      [] OTHER -> Err("unit")

\* serde_json::Value::as_i64 as Deserialize uses it: the integer of an integer
\* scalar that fits i64, None for every other scalar
AsI64(json) == IF json.kind = "int" THEN Some(json.n) ELSE None

\* impl Deserialize for AttemptResult<ARV>, for the payload type arv
DeserializeAttemptResult(json, arv) ==
    IF ~IsSome(AsI64(json)) THEN Err("Not a number")
    ELSE LET r == TryFromI64(Unwrap(AsI64(json)), arv)
         IN IF IsOk(r) THEN r ELSE Err("not a valid result")

\* SerializeAttemptResult writing DNS as -3
SerializeAttemptResult_DNSBelowRange(r) ==
    CASE r.kind = "Skipped" -> I64Of(0)
      [] r.kind = "DNF" -> I64Of(-1)
      [] r.kind = "DNS" -> I64Of(-3)
      [] r.kind = "Success" -> I64FromU32(r.v)

\* impl Serialize for AttemptResult<ARV> (ARV: Into<u32>): the i64 written
SerializeAttemptResult(r) ==
    CASE r.kind = "Skipped" -> I64Of(0)
      [] r.kind = "DNF" -> I64Of(-1)
      [] r.kind = "DNS" -> I64Of(-2)
      [] r.kind = "Success" -> I64FromU32(r.v)

\* impl From<AttemptResult<CentiSeconds>> for AttemptResult<MultiBlind...>
\* (to_multi_blind, as_multi_blind)
to_multi_blind(r) == IF is_success(r) THEN Success(MultiBlindFrom(r.v)) ELSE r

\* impl From<AttemptResult<CentiSeconds>> for AttemptResult<FMCAttemptResultValue>
to_fmc(r) == IF is_success(r) THEN Success(AsU16(r.v)) ELSE r

\* derived Ord of MultiBlindAttemptResultValue: the fields in declaration order
\* (attempted, solved, time, old_style), false < true
MultiBlindCmp(a, b) ==
    Then(CmpInt(a.attempted, b.attempted),
    Then(CmpInt(a.solved, b.solved),
    Then(CmpInt(a.time, b.time),
         CmpInt(IF a.old_style THEN 1 ELSE 0, IF b.old_style THEN 1 ELSE 0))))

\* impl PartialOrd for MultiBlindAttemptResultValue: Some(ordering), or a panic of
\* points() / failed()
MultiBlindPartialCmp(a, b) ==
    IF IsPanic(points(a)) \/ IsPanic(points(b)) THEN Panic
    ELSE Some(Then(U32Cmp(points(a), points(b)),
              Then(Reverse(CmpInt(a.time, b.time)),
                   Reverse(U32Cmp(failed(a), failed(b))))))

\* <ARV as Ord>::cmp for the payload type arv: the integer order of u32 and u16, the
\* derived order of the multi-blind value
ArvCmp(arv, x, y) ==
    CASE arv = "CentiSeconds" -> U32Cmp(x, y)
      [] arv = "FMC" -> CmpInt(x, y)
      [] arv = "MultiBlind" -> MultiBlindCmp(x, y)

\* derived Ord of AttemptResult<ARV>: the variants in declaration order (Skipped, DNF,
\* DNS, Success), two Success values by the order of the payload
VariantIndex(r) ==
    CASE r.kind = "Skipped" -> 0
      [] r.kind = "DNF" -> 1
      [] r.kind = "DNS" -> 2
      [] r.kind = "Success" -> 3
AttemptCmp(a, b, arv) ==
    IF is_success(a) /\ is_success(b) THEN ArvCmp(arv, a.v, b.v)
    ELSE CmpInt(VariantIndex(a), VariantIndex(b))

\* AttemptPartialCmp without the reversal of the payload order
AttemptPartialCmp_NotReversed(a, b, arv) ==
    Some(CASE is_success(a) /\ is_success(b) -> ArvCmp(arv, a.v, b.v)
           [] is_success(a) -> "Greater"
           [] is_success(b) -> "Less"
           [] OTHER -> "Equal")

\* impl PartialOrd for AttemptResult<ARV>, for the payload type arv
AttemptPartialCmp(a, b, arv) ==
    Some(CASE is_success(a) /\ is_success(b) -> Reverse(ArvCmp(arv, a.v, b.v))
           [] is_success(a) -> "Greater"
           [] is_success(b) -> "Less"
           [] OTHER -> "Equal")

(***************************************************************************)
(* Inputs of the numeric codec                                             *)
(***************************************************************************)
\* the low and the high end of a packed decimal field 0..top
FieldSamples(top) == (0..MaxStep) \cup ((top - MaxStep)..top)

\* raw values of the current layout: DD TTTTT MM
CurrentRaws ==
    { U32Of(d * 10000000 + t * 100 + m) :
        d \in FieldSamples(99) \cup {87},
        t \in FieldSamples(99999) \cup {3000},
        m \in FieldSamples(99) \cup {4} }

\* raw values of 1_000_000_000 and more: H SS AA TTTTT, up to u32::MAX
LegacyRaws ==
    { u \in { U32(h * 10000 + ss * 100 + aa, t) :
                h \in 1..4,
                ss \in FieldSamples(99) \cup {83},
                aa \in FieldSamples(99) \cup {20},
                t \in FieldSamples(99999) \cup {3000} } : IsU32(u) }
    \cup {U32Max, U32(42949, 0), U32(21474, 83647), U32(21474, 83648)}

RawSamples == CurrentRaws \cup LegacyRaws

\* i64 inputs: the u32 range, values beyond it, negative values, the extremes
I64Samples ==
    { I64(0, u) : u \in RawSamples }
    \cup { I64(hw, u) : hw \in 1..MaxWide,
                        u \in {U32Of(0), U32Of(1), U32Of(870300004), U32(18320, 3000)} }
    \cup { I64Of(-n) : n \in 1..MaxNeg }
    \cup { I64(-1, U32Of(0)), I64(-2, U32Max), I64(-2147483647 - 1, U32Of(0)),
           I64(2147483647, U32Max) }

\* JSON scalars: integers that fit i64, and the scalars as_i64 has no integer for
\* (a float, an integer above i64::MAX, a string, a bool, null)
JsonSamples ==
    { [kind |-> "int", n |-> i] : i \in I64Samples }
    \cup { [kind |-> k, n |-> I64Of(0)] : k \in {"float", "u64", "string", "bool", "null"} }

(***************************************************************************)
(* Specification of the numeric codec: a JSON scalar is deserialized, the  *)
(* result is serialized back, converted to a multi-blind result, and the   *)
(* multi-blind value is serialized.  (A build flag that the codecs of a    *)
(* specification do not read is fixed in its Init.)                        *)
(***************************************************************************)
InitResult ==
    /\ pc = "start"
    /\ overflow_checks \in BOOLEAN
    /\ parse_puzzle_type = FALSE
    /\ wire \in JsonSamples
    /\ attempt = Nil /\ wire_out = Nil /\ multi = Nil /\ multi_out = Nil
    /\ lhs = Nil /\ rhs = Nil /\ ordering = Nil
    /\ code = Nil /\ text = Nil /\ parsed = Nil

Deserialize ==
    /\ pc = "start"
    /\ attempt' = DeserializeAttemptResult(wire, "CentiSeconds")
    /\ pc' = "deserialized"
    /\ UNCHANGED <<overflow_checks, parse_puzzle_type, wire, wire_out, multi, multi_out,
                   lhs, rhs, ordering, code, text, parsed>>

Serialize ==
    /\ pc = "deserialized"
    /\ IsOk(attempt)
    /\ wire_out' = SerializeAttemptResult(attempt.val)
    /\ pc' = "serialized"
    /\ UNCHANGED <<overflow_checks, parse_puzzle_type, wire, attempt, multi, multi_out,
                   lhs, rhs, ordering, code, text, parsed>>

ToMultiBlind ==
    /\ pc = "serialized"
    /\ multi' = to_multi_blind(attempt.val)
    /\ pc' = "converted"
    /\ UNCHANGED <<overflow_checks, parse_puzzle_type, wire, attempt, wire_out, multi_out,
                   lhs, rhs, ordering, code, text, parsed>>

SerializeMultiBlind ==
    /\ pc = "converted"
    /\ is_success(multi)
    /\ multi_out' = SerializeMultiBlindValue(multi.v)
    /\ pc' = "reencoded"
    /\ UNCHANGED <<overflow_checks, parse_puzzle_type, wire, attempt, wire_out, multi,
                   lhs, rhs, ordering, code, text, parsed>>

NextResult == Deserialize \/ Serialize \/ ToMultiBlind \/ SerializeMultiBlind

SpecResult == InitResult /\ [][NextResult]_vars

(***************************************************************************)
(* Claims about the numeric codec (under SpecResult)                       *)
(***************************************************************************)
\* the u32 carried by the deserialized Success
Raw == attempt.val.v
I64Lt(a, b) == a.w < b.w \/ (a.w = b.w /\ U32Lt(a.u, b.u))

\* C1, as stated: for every raw value r >= 1 that a Success carries, up to 2^32-1,
\* serializing the multi-blind value derived from r yields exactly r.
C1_ReencodeInvertsDecodeEveryU32 ==
    (pc = "reencoded" /\ Raw # U32Of(0)) => multi_out = I64FromU32(Raw)

\* C1, amended: for every raw value r with 1 <= r < 2_000_000_000, serializing the
\* multi-blind value derived from r (with the layout recorded in old_style) yields r.
C1_ReencodeInvertsDecode ==
    (pc = "reencoded" /\ Raw # U32Of(0) /\ U32Lt(Raw, U32(20000, 0)))
        => multi_out = I64FromU32(Raw)

\* C1: the legacy example 1832003000 has been decoded and written back
C1_Witness ==
    /\ pc = "reencoded"
    /\ Raw = U32(18320, 3000)
    /\ multi.v.old_style
    /\ multi_out = I64FromU32(U32(18320, 3000))

\* C4: decoding 0 gives Skipped, -1 DNF, -2 DNS; every integer below -2 and every
\* scalar that is no integer gives a decode failure, never a value.
C4_DecodeBoundary ==
    pc \in {"deserialized", "serialized", "converted", "reencoded"} =>
        /\ wire = [kind |-> "int", n |-> I64Of(0)] => attempt = Ok(Skipped)
        /\ wire = [kind |-> "int", n |-> I64Of(-1)] => attempt = Ok(DNF)
        /\ wire = [kind |-> "int", n |-> I64Of(-2)] => attempt = Ok(DNS)
        /\ (wire.kind = "int" /\ I64Lt(wire.n, I64Of(-2)))
               => attempt = Err("not a valid result")
        /\ wire.kind # "int" => attempt = Err("Not a number")

\* C4: -3 has been refused
C4_Witness ==
    /\ pc = "deserialized"
    /\ wire = [kind |-> "int", n |-> I64Of(-3)]
    /\ attempt = Err("not a valid result")

\* C5, as stated: for every i64 n that decode accepts (-2, -1, 0 or any n > 0),
\* encode(decode(n)) = n.
C5_EncodeInvertsDecode ==
    pc = "serialized" => wire_out = wire.n

\* C6: for 1 <= r < 1_000_000_000, to_multi_blind of Success(r) is Success with
\* missed = r mod 100, time = (r div 100) mod 100000,
\* solved = (99 - r div 10^7) + missed, attempted = solved + missed, old_style false;
\* 870300004 gives solved 16, attempted 20, time 3000.
C6_CurrentLayout ==
    (pc \in {"converted", "reencoded"} /\ is_success(attempt.val)
       /\ Raw # U32Of(0) /\ U32Lt(Raw, U32(10000, 0))) =>
        LET r == U32Val(Raw)
            missed == r % 100
            solved == (99 - r \div 10000000) + missed
        IN /\ multi = Success(MultiBlind(solved + missed, solved,
                                         (r \div 100) % 100000, FALSE))
           /\ r = 870300004 => multi = Success(MultiBlind(20, 16, 3000, FALSE))

\* C6: the example 870300004 has been converted
C6_Witness ==
    /\ pc = "converted"
    /\ is_success(attempt.val)
    /\ Raw = U32Of(870300004)
    /\ multi = Success(MultiBlind(20, 16, 3000, FALSE))

\* C7: for r >= 1_000_000_000, to_multi_blind of Success(r) is Success with
\* time = r mod 100000, attempted = (r div 100000) mod 100,
\* solved = 99 - ((r div 10^7) mod 100), old_style true (1832003000 gives solved 16,
\* attempted 20, time 3000); old_style is true exactly when r >= 1_000_000_000.
\* (r div 100000 is the limb Raw.hi, r mod 100000 the limb Raw.lo.)
C7_LegacyLayout ==
    (pc \in {"converted", "reencoded"} /\ is_success(attempt.val)) =>
        /\ multi.v.old_style <=> ~U32Lt(Raw, U32(10000, 0))
        /\ ~U32Lt(Raw, U32(10000, 0)) =>
              multi = Success(MultiBlind(Raw.hi % 100, 99 - ((Raw.hi \div 100) % 100),
                                         Raw.lo, TRUE))
        /\ Raw = U32(18320, 3000) => multi = Success(MultiBlind(20, 16, 3000, TRUE))

\* C7: a raw value above 2^31 has been converted with the legacy layout
C7_Witness ==
    /\ pc = "converted"
    /\ is_success(attempt.val)
    /\ Raw = U32(42949, 67295)
    /\ multi = Success(MultiBlind(49, 70, 67295, TRUE))

\* C25, as stated: for every multi-blind value decoded from a raw value r >= 1, in
\* either layout, solved <= attempted and attempted - solved <= solved, so that
\* failed() and points() do not underflow.
C25_NoUnderflow ==
    (pc \in {"converted", "reencoded"} /\ is_success(multi)) =>
        /\ multi.v.solved <= multi.v.attempted
        /\ multi.v.attempted - multi.v.solved <= multi.v.solved
        /\ ~IsPanic(failed(multi.v))
        /\ ~IsPanic(points(multi.v))

(***************************************************************************)
(* Specification of the result orderings: two attempt results, as the      *)
(* deserializer makes them, are compared under each payload type.          *)
(***************************************************************************)
\* raw values whose multi-blind fields are small: both layouts, every combination
\* of solved and missed / attempted in 0..RankStep, two times; and two large values
RankRaws ==
    { U32Of(d * 10000000 + t * 100 + m) :
        d \in (99 - RankStep)..99, t \in 0..1, m \in 0..RankStep }
    \cup { U32(10000 + ss * 100 + aa, t) :
        ss \in (99 - RankStep)..99, aa \in 0..RankStep, t \in 0..1 }
    \cup {U32Of(65536 + 7), U32Max}

RankSamples == {Skipped, DNF, DNS} \cup { Success(u) : u \in RankRaws }

InitRank ==
    /\ pc = "start"
    /\ overflow_checks \in BOOLEAN
    /\ parse_puzzle_type = FALSE
    /\ lhs \in RankSamples
    /\ rhs \in RankSamples
    /\ ordering = Nil
    /\ wire = Nil /\ attempt = Nil /\ wire_out = Nil /\ multi = Nil /\ multi_out = Nil
    /\ code = Nil /\ text = Nil /\ parsed = Nil

\* AttemptResult<CentiSecondAttemptResultValue>::partial_cmp
CompareCentiSeconds ==
    /\ pc = "start"
    /\ ordering' = AttemptPartialCmp(lhs, rhs, "CentiSeconds")
    /\ pc' = "cmp_centiseconds"
    /\ UNCHANGED <<overflow_checks, parse_puzzle_type, wire, attempt, wire_out, multi, multi_out,
                   lhs, rhs, code, text, parsed>>

\* AttemptResult<FMCAttemptResultValue>::partial_cmp on the to_fmc() of both
CompareFmc ==
    /\ pc = "start"
    /\ ordering' = AttemptPartialCmp(to_fmc(lhs), to_fmc(rhs), "FMC")
    /\ pc' = "cmp_fmc"
    /\ UNCHANGED <<overflow_checks, parse_puzzle_type, wire, attempt, wire_out, multi, multi_out,
                   lhs, rhs, code, text, parsed>>

\* AttemptResult<MultiBlindAttemptResultValue>::partial_cmp on the to_multi_blind()
\* of both
CompareMultiBlind ==
    /\ pc = "start"
    /\ ordering' = AttemptPartialCmp(to_multi_blind(lhs), to_multi_blind(rhs),
                                     "MultiBlind")
    /\ pc' = "cmp_multi_blind"
    /\ UNCHANGED <<overflow_checks, parse_puzzle_type, wire, attempt, wire_out, multi, multi_out,
                   lhs, rhs, code, text, parsed>>

\* MultiBlindAttemptResultValue::partial_cmp on the payloads of two successes
CompareMultiBlindValue ==
    /\ pc = "start"
    /\ is_success(lhs) /\ is_success(rhs)
    /\ ordering' = MultiBlindPartialCmp(MultiBlindFrom(lhs.v), MultiBlindFrom(rhs.v))
    /\ pc' = "cmp_multi_blind_value"
    /\ UNCHANGED <<overflow_checks, parse_puzzle_type, wire, attempt, wire_out, multi, multi_out,
                   lhs, rhs, code, text, parsed>>

NextRank ==
    CompareCentiSeconds \/ CompareFmc \/ CompareMultiBlind \/ CompareMultiBlindValue

SpecRank == InitRank /\ [][NextRank]_vars

(***************************************************************************)
(* Claims about the result orderings (under SpecRank)                      *)
(***************************************************************************)
\* the multi-blind payloads of lhs and rhs
LhsMulti == MultiBlindFrom(lhs.v)
RhsMulti == MultiBlindFrom(rhs.v)
\* failed and points of the data model, as integers: attempted - solved and
\* solved - failed
FailedOf(m) == m.attempted - m.solved
PointsOf(m) == m.solved - FailedOf(m)
\* a is the better multi-blind result: higher points, then lower time, then lower
\* failed
BetterMultiBlind(a, b) ==
    \/ PointsOf(a) > PointsOf(b)
    \/ PointsOf(a) = PointsOf(b) /\ a.time < b.time
    \/ PointsOf(a) = PointsOf(b) /\ a.time = b.time /\ FailedOf(a) < FailedOf(b)
SameMultiBlindRank(a, b) ==
    PointsOf(a) = PointsOf(b) /\ a.time = b.time /\ FailedOf(a) = FailedOf(b)

\* C8, as stated: Success(a) ranks Greater than Success(b) under
\* AttemptResult<MultiBlindResult>::partial_cmp exactly when a has higher points, or
\* equal points and lower time, or equal points and time and lower failed.
C8_MultiBlindAttemptRanking ==
    (pc = "cmp_multi_blind" /\ is_success(lhs) /\ is_success(rhs)) =>
        (ordering = Some("Greater") <=> BetterMultiBlind(LhsMulti, RhsMulti))

\* C9, as stated: for two decoded MultiBlindResult values a and b, a.partial_cmp(b)
\* is Some(Greater) exactly when a has higher points, or equal points and lower
\* time, or equal points and time and lower failed; it is Some(Equal) exactly when
\* points, time and failed are all equal.
C9_MultiBlindValueOrdering ==
    pc = "cmp_multi_blind_value" =>
        /\ ordering = Some("Greater") <=> BetterMultiBlind(LhsMulti, RhsMulti)
        /\ ordering = Some("Equal") <=> SameMultiBlindRank(LhsMulti, RhsMulti)

\* the plain payloads compared by the last step
LhsPlain == IF pc = "cmp_fmc" THEN to_fmc(lhs) ELSE lhs
RhsPlain == IF pc = "cmp_fmc" THEN to_fmc(rhs) ELSE rhs
PlainLess(a, b) == IF pc = "cmp_fmc" THEN a < b ELSE U32Lt(a, b)

\* C10: with a time or a move-count payload, every Success compares Greater than
\* Skipped, DNF and DNS (and they Less than it); Skipped, DNF and DNS compare
\* mutually Equal; of two Success values the one with the smaller raw value compares
\* Greater.
C10_PlainRanking ==
    pc \in {"cmp_centiseconds", "cmp_fmc"} =>
        /\ (is_success(LhsPlain) /\ ~is_success(RhsPlain)) => ordering = Some("Greater")
        /\ (~is_success(LhsPlain) /\ is_success(RhsPlain)) => ordering = Some("Less")
        /\ (~is_success(LhsPlain) /\ ~is_success(RhsPlain)) => ordering = Some("Equal")
        /\ (is_success(LhsPlain) /\ is_success(RhsPlain)) =>
              /\ PlainLess(LhsPlain.v, RhsPlain.v) => ordering = Some("Greater")
              /\ PlainLess(RhsPlain.v, LhsPlain.v) => ordering = Some("Less")
              /\ LhsPlain.v = RhsPlain.v => ordering = Some("Equal")

\* C10: two successful times have been compared and the smaller one won
C10_Witness ==
    /\ pc = "cmp_centiseconds"
    /\ lhs = Success(U32Of(970000000))
    /\ rhs = Success(U32Max)
    /\ ordering = Some("Greater")

(***************************************************************************)
(* activity_code: EventActivityCode and its specificity order              *)
(***************************************************************************)
\* struct EventActivityCode<EventId>: event, and the optional round (u32),
\* group (u32) and attempt (u8)
EventActivityCode(e, r, g, a) == [event |-> e, round |-> r, group |-> g, attempt |-> a]

\* a step of partial_cmp: `return v`, or falling through with self_more_specific
Return(v) == [ret |-> TRUE, val |-> v]
Continue(sms) == [ret |-> FALSE, sms |-> sms]

\* CmpRound forgetting which side has the round
CmpRound_DirectionForgotten(self, other) ==
    IF self.round # other.round
    THEN IF IsSome(self.round) /\ IsSome(other.round) THEN Return(None)
         ELSE IF IsSome(self.round) /\ ~IsSome(other.round) THEN Continue(None)
         ELSE IF ~IsSome(self.round) /\ IsSome(other.round) THEN Continue(None)
         ELSE Return(Panic)
    ELSE Continue(None)

\* partial_cmp, the block on round
CmpRound(self, other) ==
    IF self.round # other.round
    THEN IF IsSome(self.round) /\ IsSome(other.round) THEN Return(None)
         ELSE IF IsSome(self.round) /\ ~IsSome(other.round) THEN Continue(Some(TRUE))
         ELSE IF ~IsSome(self.round) /\ IsSome(other.round) THEN Continue(Some(FALSE))
         ELSE Return(Panic)
    ELSE Continue(None)

\* CmpGroup falling through when both groups are present and differ
CmpGroup_ContradictionFallsThrough(self, other, sms) ==
    IF self.group # other.group
    THEN IF IsSome(self.group) /\ IsSome(other.group) THEN Continue(sms)
         ELSE IF IsSome(self.group) /\ ~IsSome(other.group) /\ sms = Some(FALSE)
              THEN Return(None)
         ELSE IF ~IsSome(self.group) /\ IsSome(other.group) /\ sms = Some(TRUE)
              THEN Return(None)
         ELSE IF IsSome(self.group) /\ ~IsSome(other.group) THEN Continue(Some(TRUE))
         ELSE IF ~IsSome(self.group) /\ IsSome(other.group) THEN Continue(Some(FALSE))
         ELSE Return(Panic)
    ELSE Continue(sms)

\* partial_cmp, the block on group
CmpGroup(self, other, sms) ==
    IF self.group # other.group
    THEN IF IsSome(self.group) /\ IsSome(other.group) THEN Return(None)
         ELSE IF IsSome(self.group) /\ ~IsSome(other.group) /\ sms = Some(FALSE)
              THEN Return(None)
         ELSE IF ~IsSome(self.group) /\ IsSome(other.group) /\ sms = Some(TRUE)
              THEN Return(None)
         ELSE IF IsSome(self.group) /\ ~IsSome(other.group) THEN Continue(Some(TRUE))
         ELSE IF ~IsSome(self.group) /\ IsSome(other.group) THEN Continue(Some(FALSE))
         ELSE Return(Panic)
    ELSE Continue(sms)

\* CmpAttempt entering its match when the attempts are equal as well
CmpAttempt_MatchesAlways(self, other, sms) ==
    IF IsSome(self.attempt) /\ IsSome(other.attempt) /\ self.attempt # other.attempt THEN None
    ELSE IF IsSome(self.attempt) /\ IsSome(other.attempt) THEN Some("Equal")
    ELSE IF IsSome(self.attempt) /\ ~IsSome(other.attempt) /\ sms = Some(FALSE)
         THEN None
    ELSE IF ~IsSome(self.attempt) /\ IsSome(other.attempt) /\ sms = Some(TRUE)
         THEN None
    ELSE IF IsSome(self.attempt) /\ ~IsSome(other.attempt) THEN Some("Less")
    ELSE IF ~IsSome(self.attempt) /\ IsSome(other.attempt) THEN Some("Greater")
    ELSE Panic

\* partial_cmp, the block on attempt; falling through it returns Some(Equal)
CmpAttempt(self, other, sms) ==
    IF self.attempt # other.attempt
    THEN IF IsSome(self.attempt) /\ IsSome(other.attempt) THEN None
         ELSE IF IsSome(self.attempt) /\ ~IsSome(other.attempt) /\ sms = Some(FALSE)
              THEN None
         ELSE IF ~IsSome(self.attempt) /\ IsSome(other.attempt) /\ sms = Some(TRUE)
              THEN None
         ELSE IF IsSome(self.attempt) /\ ~IsSome(other.attempt) THEN Some("Less")
         ELSE IF ~IsSome(self.attempt) /\ IsSome(other.attempt) THEN Some("Greater")
         ELSE Panic
    ELSE Some("Equal")

\* EventPartialCmp without the test on the event ids
EventPartialCmp_EventIgnored(self, other) ==
    LET r == CmpRound(self, other)
    IN IF r.ret THEN r.val
       ELSE LET g == CmpGroup(self, other, r.sms)
            IN IF g.ret THEN g.val
               ELSE CmpAttempt(self, other, g.sms)

\* impl PartialOrd for EventActivityCode<EventId>: Some(ordering), None, or the
\* panic of an unreachable!() arm
EventPartialCmp(self, other) ==
    IF self.event # other.event THEN None
    ELSE LET r == CmpRound(self, other)
         IN IF r.ret THEN r.val
            ELSE LET g == CmpGroup(self, other, r.sms)
                 IN IF g.ret THEN g.val
                    ELSE CmpAttempt(self, other, g.sms)

(***************************************************************************)
(* Specification of the specificity order: two activity codes are compared *)
(***************************************************************************)
\* round, group and attempt numbers 1..MaxId
MaxId == 2

OrderEvents == { <<"3", "3", "3">>, <<"2", "2", "2">> }
OrderSamples ==
    { EventActivityCode(e, r, g, a) :
        e \in OrderEvents,
        r \in {None} \cup { Some(U32Of(n)) : n \in 1..MaxId },
        g \in {None} \cup { Some(U32Of(n)) : n \in 1..MaxId },
        a \in {None} \cup { Some(n) : n \in 1..MaxId } }

InitOrder ==
    /\ pc = "start"
    /\ overflow_checks = FALSE
    /\ parse_puzzle_type = FALSE
    /\ lhs \in OrderSamples
    /\ rhs \in OrderSamples
    /\ ordering = Nil
    /\ wire = Nil /\ attempt = Nil /\ wire_out = Nil /\ multi = Nil /\ multi_out = Nil
    /\ code = Nil /\ text = Nil /\ parsed = Nil

\* lhs.partial_cmp(&rhs)
CompareActivityCodes ==
    /\ pc = "start"
    /\ ordering' = EventPartialCmp(lhs, rhs)
    /\ pc' = "cmp_activity"
    /\ UNCHANGED <<overflow_checks, parse_puzzle_type, wire, attempt, wire_out, multi, multi_out,
                   lhs, rhs, code, text, parsed>>

NextOrder == CompareActivityCodes

SpecOrder == InitOrder /\ [][NextOrder]_vars

(***************************************************************************)
(* Claims about the specificity order (under SpecOrder)                    *)
(***************************************************************************)
\* every optional field present in a is present in b with the same value
FieldsWithin(a, b) ==
    /\ IsSome(a.round) => b.round = a.round
    /\ IsSome(a.group) => b.group = a.group
    /\ IsSome(a.attempt) => b.attempt = a.attempt
\* a is the more general code: same event, a's fields within b's, and b has a
\* field that a lacks
MoreGeneral(a, b) == a.event = b.event /\ FieldsWithin(a, b) /\ a # b

\* C2, as stated: when a is more general than b (same event, every field of a is in
\* b with the same value, b has a field a lacks), a.partial_cmp(b) = Some(Less) and
\* b.partial_cmp(a) = Some(Greater).
C2_MoreGeneralIsLess ==
    pc = "cmp_activity" =>
        /\ MoreGeneral(lhs, rhs) => ordering = Some("Less")
        /\ MoreGeneral(rhs, lhs) => ordering = Some("Greater")

\* C14: two codes whose event ids differ are incomparable, whatever their round,
\* group and attempt are: partial_cmp returns None.
C14_DifferentEventsIncomparable ==
    (pc = "cmp_activity" /\ lhs.event # rhs.event) => ordering = None

\* C14: two codes of different events with the same round, group and attempt have
\* been compared
C14_Witness ==
    /\ pc = "cmp_activity"
    /\ lhs.event # rhs.event
    /\ lhs.round = rhs.round /\ IsSome(lhs.round)
    /\ lhs.group = rhs.group /\ lhs.attempt = rhs.attempt
    /\ ordering = None

\* a field is present on both sides with unequal values
Contradictory(a, b) ==
    \/ IsSome(a.round) /\ IsSome(b.round) /\ a.round # b.round
    \/ IsSome(a.group) /\ IsSome(b.group) /\ a.group # b.group
    \/ IsSome(a.attempt) /\ IsSome(b.attempt) /\ a.attempt # b.attempt

\* C15: two codes of the same event in which round, group or attempt is present on
\* both sides with unequal values are incomparable, whatever the other fields are:
\* partial_cmp returns None.
C15_ContradictionIncomparable ==
    (pc = "cmp_activity" /\ lhs.event = rhs.event /\ Contradictory(lhs, rhs))
        => ordering = None

\* C15: codes whose groups differ, the round being on one side only and the attempts
\* equal, have been compared
C15_Witness ==
    /\ pc = "cmp_activity"
    /\ lhs.event = rhs.event
    /\ IsSome(lhs.round) /\ ~IsSome(rhs.round)
    /\ IsSome(lhs.group) /\ IsSome(rhs.group) /\ lhs.group # rhs.group
    /\ lhs.attempt = rhs.attempt
    /\ ordering = None

\* a has one of round, group, attempt that b lacks
HasBeyond(a, b) ==
    \/ IsSome(a.round) /\ ~IsSome(b.round)
    \/ IsSome(a.group) /\ ~IsSome(b.group)
    \/ IsSome(a.attempt) /\ ~IsSome(b.attempt)

\* C23: two codes of the same event, each with an optional field that the other
\* lacks (round against group, round against attempt, group against attempt), are
\* incomparable in both argument orders: partial_cmp returns None.
C23_OppositeDirectionsIncomparable ==
    (pc = "cmp_activity" /\ lhs.event = rhs.event
       /\ HasBeyond(lhs, rhs) /\ HasBeyond(rhs, lhs)) => ordering = None

\* C23: a code with a round and no group has been compared with a code with a group
\* and no round, the attempts being equal
C23_Witness ==
    /\ pc = "cmp_activity"
    /\ lhs.event = rhs.event
    /\ IsSome(lhs.round) /\ ~IsSome(rhs.round)
    /\ ~IsSome(lhs.group) /\ IsSome(rhs.group)
    /\ lhs.attempt = rhs.attempt
    /\ ordering = None

\* C24, as stated: a.partial_cmp(b) = Some(Equal) if and only if a == b.
C24_EqualIffSame ==
    pc = "cmp_activity" => (ordering = Some("Equal") <=> lhs = rhs)

\* C28: for every pair of codes, whatever is present or absent and equal or unequal
\* in round, group and attempt, partial_cmp returns Some(ordering) or None; no
\* unreachable!() arm is reached.
C28_NoUnreachableArm ==
    pc = "cmp_activity" =>
        ordering \in {None, Some("Less"), Some("Equal"), Some("Greater")}

\* C28: codes that differ in the presence of all three fields have been compared
C28_Witness ==
    /\ pc = "cmp_activity"
    /\ lhs.event = rhs.event
    /\ IsSome(lhs.round) /\ ~IsSome(rhs.round)
    /\ IsSome(lhs.group) /\ ~IsSome(rhs.group)
    /\ IsSome(lhs.attempt) /\ ~IsSome(rhs.attempt)
    /\ ordering = Some("Less")

(***************************************************************************)
(* Strings and the integer parsers and formatters of core                  *)
(***************************************************************************)
StartsWith(s, p) == Len(s) >= Len(p) /\ SubSeq(s, 1, Len(p)) = p
\* &s[n..]
SkipChars(s, n) == SubSeq(s, n + 1, Len(s))

DigitChars == <<"0", "1", "2", "3", "4", "5", "6", "7", "8", "9">>
IsDigit(c) == \E d \in 1..10 : DigitChars[d] = c
DigitVal(c) == (CHOOSE d \in 1..10 : DigitChars[d] = c) - 1

\* Display of an unsigned integer: decimal, no padding
RECURSIVE FmtNat(_)
FmtNat(n) == IF n < 10 THEN <<DigitChars[n + 1]>>
             ELSE FmtNat(n \div 10) \o <<DigitChars[(n % 10) + 1]>>
\* the five decimal digits of a low limb
FmtLimb(n) == <<DigitChars[(n \div 10000) + 1], DigitChars[((n \div 1000) % 10) + 1],
               DigitChars[((n \div 100) % 10) + 1], DigitChars[((n \div 10) % 10) + 1],
               DigitChars[(n % 10) + 1]>>
FmtU32(u) == IF u.hi = 0 THEN FmtNat(u.lo) ELSE FmtNat(u.hi) \o FmtLimb(u.lo)

\* acc * 10 + d on limbs (acc is at most u32::MAX, so the limbs fit TLC's integers)
MulAdd10(acc, d) == LET l == acc.lo * 10 + d
                    IN U32(acc.hi * 10 + l \div 100000, l % 100000)

\* the digit loop of <uN as FromStr>::from_str, left to right from position i
RECURSIVE ParseDigits(_, _, _, _)
ParseDigits(s, i, acc, max) ==
    IF i > Len(s) THEN Ok(acc)
    ELSE IF ~IsDigit(s[i]) THEN Err("invalid digit found in string")
    ELSE LET n == MulAdd10(acc, DigitVal(s[i]))
         IN IF U32Lt(max, n) THEN Err("number too large to fit in target type")
            ELSE ParseDigits(s, i + 1, n, max)

\* <uN as FromStr>::from_str for an unsigned type with maximum max: an optional
\* leading "+", then decimal digits
ParseUnsigned(s, max) ==
    IF s = <<>> THEN Err("cannot parse integer from empty string")
    ELSE IF s = <<"+">> \/ s = <<"-">> THEN Err("invalid digit found in string")
    ELSE ParseDigits(IF s[1] = "+" THEN Tail(s) ELSE s, 1, U32Of(0), max)

\* str::split("-"): the parts between the hyphens, at least one
RECURSIVE Split(_)
Split(s) ==
    IF \A i \in 1..Len(s) : s[i] # "-" THEN <<s>>
    ELSE LET i == CHOOSE j \in 1..Len(s) : s[j] = "-" /\ \A k \in 1..(j - 1) : s[k] # "-"
         IN <<SubSeq(s, 1, i - 1)>> \o Split(SubSeq(s, i + 1, Len(s)))

(***************************************************************************)
(* activity_code: Display and FromStr                                      *)
(***************************************************************************)
\* OfficialEventId, each value named by the string Display writes for it (FromStr
\* reads the same 21 strings back)
OfficialEventIds ==
    { <<"3", "3", "3">>,
      <<"2", "2", "2">>,
      <<"4", "4", "4">>,
      <<"5", "5", "5">>,
      <<"6", "6", "6">>,
      <<"7", "7", "7">>,
      <<"3", "3", "3", "b", "f">>,
      <<"3", "3", "3", "f", "m">>,
      <<"3", "3", "3", "o", "h">>,
      <<"3", "3", "3", "f", "t">>,
      <<"c", "l", "o", "c", "k">>,
      <<"m", "i", "n", "x">>,
      <<"p", "y", "r", "a", "m">>,
      <<"s", "k", "e", "w", "b">>,
      <<"s", "q", "1">>,
      <<"4", "4", "4", "b", "f">>,
      <<"5", "5", "5", "b", "f">>,
      <<"3", "3", "3", "m", "b", "f">>,
      <<"m", "a", "g", "i", "c">>,
      <<"m", "m", "a", "g", "i", "c">>,
      <<"3", "3", "3", "m", "b", "o">> }

\* <EventId as FromStr>::from_str.  typed: the event id is crate::types::EventId
\* (OfficialEventId with the feature parse_puzzle_type: 21 strings are known; String
\* without it); not typed: it is String, whose from_str never fails.
EventIdFromStr(x, typed) ==
    IF typed /\ parse_puzzle_type /\ x \notin OfficialEventIds
    THEN Err("Not a valid event")
    ELSE Ok(x)

\* enum ActivityCode
Official(c) == [variant |-> "Official", c |-> c]
Unofficial(u) == [variant |-> "Unofficial", u |-> u]

\* enum UnofficialActivityCode
Keyword(k) == [kind |-> k]
Event(c) == [kind |-> "Event", c |-> c]
Misc(label) == [kind |-> "Misc", label |-> label]
Other(x) == [kind |-> "Other", s |-> x]

\* the eight keyword variants and the strings Display and FromStr pair them with
KeywordTable ==
    { <<"Registration", <<"r", "e", "g", "i", "s", "t", "r", "a", "t", "i", "o", "n">>>>,
      <<"Checkin", <<"c", "h", "e", "c", "k", "i", "n">>>>,
      <<"Tutorial", <<"t", "u", "t", "o", "r", "i", "a", "l">>>>,
      <<"MultiSubmission", <<"m", "u", "l", "t", "i">>>>,
      <<"Breakfast", <<"b", "r", "e", "a", "k", "f", "a", "s", "t">>>>,
      <<"Lunch", <<"l", "u", "n", "c", "h">>>>,
      <<"Dinner", <<"d", "i", "n", "n", "e", "r">>>>,
      <<"Awards", <<"a", "w", "a", "r", "d", "s">>>> }
Keywords == { k[1] : k \in KeywordTable }
KeywordText(kind) == (CHOOSE k \in KeywordTable : k[1] = kind)[2]

\* FmtEventActivityCode writing the group before the round
FmtEventActivityCode_GroupFirst(c) ==
    c.event
    \o (IF IsSome(c.group) THEN <<"-", "g">> \o FmtU32(Unwrap(c.group)) ELSE <<>>)
    \o (IF IsSome(c.round) THEN <<"-", "r">> \o FmtU32(Unwrap(c.round)) ELSE <<>>)
    \o (IF IsSome(c.attempt) THEN <<"-", "a">> \o FmtNat(Unwrap(c.attempt)) ELSE <<>>)

\* impl Display for EventActivityCode<EventId>
FmtEventActivityCode(c) ==
    c.event
    \o (IF IsSome(c.round) THEN <<"-", "r">> \o FmtU32(Unwrap(c.round)) ELSE <<>>)
    \o (IF IsSome(c.group) THEN <<"-", "g">> \o FmtU32(Unwrap(c.group)) ELSE <<>>)
    \o (IF IsSome(c.attempt) THEN <<"-", "a">> \o FmtNat(Unwrap(c.attempt)) ELSE <<>>)

\* impl Display for UnofficialActivityCode
FmtUnofficialActivityCode(u) ==
    CASE u.kind \in Keywords -> KeywordText(u.kind)
      [] u.kind = "Event" -> <<"u", "n", "o", "f", "f", "i", "c", "i", "a", "l", "-">> \o FmtEventActivityCode(u.c)
      [] u.kind = "Misc" /\ IsSome(u.label) -> <<"m", "i", "s", "c", "-">> \o Unwrap(u.label)
      [] u.kind = "Misc" /\ ~IsSome(u.label) -> <<"m", "i", "s", "c">>
      [] u.kind = "Other" -> u.s

\* impl Display for ActivityCode
FmtActivityCode(x) ==
    IF x.variant = "Official" THEN FmtEventActivityCode(x.c)
    ELSE <<"o", "t", "h", "e", "r", "-">> \o FmtUnofficialActivityCode(x.u)

\* PeekComponent taking the part whatever it starts with
PeekComponent_TakesAnyPart(parts, i, prefix) ==
    IF i > Len(parts) THEN [err |-> None, val |-> None, next |-> i]
    ELSE IF StartsWith(parts[i], <<prefix>>)
    THEN LET n == ParseUnsigned(SkipChars(parts[i], 1), U32Max)
         IN IF IsOk(n) THEN [err |-> None, val |-> Some(n.val), next |-> i + 1]
            ELSE [err |-> Some(n.err), val |-> None, next |-> i + 1]
    ELSE [err |-> None, val |-> None, next |-> i + 1]

\* from_str, an optional component read by peek(): at position i of parts, a part
\* that starts with prefix is taken and parsed as u32.  The result is
\* [err, val, next]: the error if the number does not parse, else the Option and
\* the position of the next part.
PeekComponent(parts, i, prefix) ==
    IF i > Len(parts) THEN [err |-> None, val |-> None, next |-> i]
    ELSE IF StartsWith(parts[i], <<prefix>>)
    THEN LET n == ParseUnsigned(SkipChars(parts[i], 1), U32Max)
         IN IF IsOk(n) THEN [err |-> None, val |-> Some(n.val), next |-> i + 1]
            ELSE [err |-> Some(n.err), val |-> None, next |-> i + 1]
    ELSE [err |-> None, val |-> None, next |-> i]

\* from_str, the attempt read by next(): the part at position i is consumed; it is
\* parsed as u8 if it starts with "a" and is dropped otherwise
NextAttempt(parts, i) ==
    IF i > Len(parts) THEN Ok(None)
    ELSE IF StartsWith(parts[i], <<"a">>)
    THEN LET n == ParseUnsigned(SkipChars(parts[i], 1), U32Of(255))
         IN IF IsOk(n) THEN Ok(Some(U32Val(n.val))) ELSE n
    ELSE Ok(None)

\* impl FromStr for EventActivityCode<EventId>; typed as for EventIdFromStr
EventActivityCodeFromStr(s, typed) ==
    LET parts == Split(s)
        event_id == EventIdFromStr(parts[1], typed)
        round_id == PeekComponent(parts, 2, "r")
        group_id == PeekComponent(parts, round_id.next, "g")
        attempt_id == NextAttempt(parts, group_id.next)
    IN IF ~IsOk(event_id) THEN event_id
       ELSE IF IsSome(round_id.err) THEN Err(Unwrap(round_id.err))
       ELSE IF IsSome(group_id.err) THEN Err(Unwrap(group_id.err))
       ELSE IF ~IsOk(attempt_id) THEN attempt_id
       ELSE Ok(EventActivityCode(event_id.val, round_id.val, group_id.val,
                                 attempt_id.val))

\* UnofficialActivityCodeFromStr reading "misc" as a prefix without its hyphen
UnofficialActivityCodeFromStr_MiscWithoutHyphen(s) ==
    IF \E k \in KeywordTable : k[2] = s
    THEN Ok(Keyword((CHOOSE k \in KeywordTable : k[2] = s)[1]))
    ELSE IF s = <<"m", "i", "s", "c">> THEN Ok(Misc(None))
    ELSE IF StartsWith(s, <<"u", "n", "o", "f", "f", "i", "c", "i", "a", "l", "-">>)
    THEN LET e == EventActivityCodeFromStr(SkipChars(s, 11), FALSE)
         IN IF IsOk(e) THEN Ok(Event(e.val)) ELSE e
    ELSE IF StartsWith(s, <<"m", "i", "s", "c">>) THEN Ok(Misc(Some(SkipChars(s, 5))))
    ELSE Ok(Other(s))

\* impl FromStr for UnofficialActivityCode
UnofficialActivityCodeFromStr(s) ==
    IF \E k \in KeywordTable : k[2] = s
    THEN Ok(Keyword((CHOOSE k \in KeywordTable : k[2] = s)[1]))
    ELSE IF s = <<"m", "i", "s", "c">> THEN Ok(Misc(None))
    ELSE IF StartsWith(s, <<"u", "n", "o", "f", "f", "i", "c", "i", "a", "l", "-">>)
    THEN LET e == EventActivityCodeFromStr(SkipChars(s, 11), FALSE)
         IN IF IsOk(e) THEN Ok(Event(e.val)) ELSE e
    ELSE IF StartsWith(s, <<"m", "i", "s", "c", "-">>) THEN Ok(Misc(Some(SkipChars(s, 5))))
    ELSE Ok(Other(s))

\* impl FromStr for ActivityCode
ActivityCodeFromStr(s) ==
    IF StartsWith(s, <<"o", "t", "h", "e", "r", "-">>)
    THEN LET u == UnofficialActivityCodeFromStr(SkipChars(s, 6))
         IN IF IsOk(u) THEN Ok(Unofficial(u.val)) ELSE u
    ELSE LET c == EventActivityCodeFromStr(s, TRUE)
         IN IF IsOk(c) THEN Ok(Official(c.val)) ELSE c

(***************************************************************************)
(* Specification of the activity-code round trip: an ActivityCode is       *)
(* formatted and the text is parsed back.                                  *)
(***************************************************************************)
\* event ids and labels: every string of at most MaxEventLen characters
MaxEventLen == 2
EventAlphabet == {"3", "r", "-"}
ShortStrings == UNION { [1..k -> EventAlphabet] : k \in 0..MaxEventLen }
EventStrings == ShortStrings \cup { <<"3", "3", "3">>, <<"o", "t", "h", "e", "r">> }

RoundSamples ==
    {None} \cup { Some(U32Of(n)) : n \in 1..MaxId } \cup {Some(U32(1, 5)), Some(U32Max)}
AttemptSamples == {None} \cup { Some(n) : n \in 0..MaxId } \cup {Some(255)}

EventCodes(events) ==
    { EventActivityCode(e, r, g, a) :
        e \in events, r \in RoundSamples, g \in RoundSamples, a \in AttemptSamples }

\* the values of ActivityCode under the feature flag given
ActivitySamples(official_ids) ==
    { Official(c) : c \in EventCodes(IF official_ids THEN OfficialEventIds
                                      ELSE EventStrings) }
    \cup { Unofficial(Keyword(k)) : k \in Keywords }
    \cup { Unofficial(Event(c)) : c \in EventCodes(EventStrings) }
    \cup { Unofficial(Misc(l)) : l \in {None} \cup { Some(x) : x \in EventStrings } }
    \cup { Unofficial(Other(x)) : x \in EventStrings }

InitActivity ==
    /\ pc = "start"
    /\ overflow_checks = FALSE
    /\ parse_puzzle_type \in BOOLEAN
    /\ code \in ActivitySamples(parse_puzzle_type)
    /\ text = Nil /\ parsed = Nil
    /\ wire = Nil /\ attempt = Nil /\ wire_out = Nil /\ multi = Nil /\ multi_out = Nil
    /\ lhs = Nil /\ rhs = Nil /\ ordering = Nil

\* code.to_string()
FormatActivityCode ==
    /\ pc = "start"
    /\ text' = FmtActivityCode(code)
    /\ pc' = "formatted"
    /\ UNCHANGED <<overflow_checks, parse_puzzle_type, wire, attempt, wire_out, multi,
                   multi_out, lhs, rhs, ordering, code, parsed>>

\* ActivityCode::from_str(&text)
ParseActivityCode ==
    /\ pc = "formatted"
    /\ parsed' = ActivityCodeFromStr(text)
    /\ pc' = "parsed"
    /\ UNCHANGED <<overflow_checks, parse_puzzle_type, wire, attempt, wire_out, multi,
                   multi_out, lhs, rhs, ordering, code, text>>

NextActivity == FormatActivityCode \/ ParseActivityCode

SpecActivity == InitActivity /\ [][NextActivity]_vars

(***************************************************************************)
(* Claims about the activity-code round trip (under SpecActivity)          *)
(***************************************************************************)
IsOther(x) == x.variant = "Unofficial" /\ x.u.kind = "Other"
HasHyphen(s) == \E i \in 1..Len(s) : s[i] = "-"
HasComponent(c) == IsSome(c.round) \/ IsSome(c.group) \/ IsSome(c.attempt)
\* the event id of an Official or an Event code has no "-", and an Official code
\* is not the event id "other" followed by a component
EventIdUnambiguous(x) ==
    /\ x.variant = "Official" =>
          /\ ~HasHyphen(x.c.event)
          /\ ~(x.c.event = <<"o", "t", "h", "e", "r">> /\ HasComponent(x.c))
    /\ (x.variant = "Unofficial" /\ x.u.kind = "Event") => ~HasHyphen(x.u.c.event)

\* C3, as stated: for every ActivityCode x other than Unofficial(Other(_)), with any
\* event id string, parse(format(x)) = x.
C3_RoundTripEveryCode ==
    (pc = "parsed" /\ ~IsOther(code)) => parsed = Ok(code)

\* C3, amended: for every ActivityCode x other than Unofficial(Other(_)) whose event
\* id (of an Official or an Event code) contains no "-", and which is not an
\* Official code with the event id "other" and a round, group or attempt,
\* parse(format(x)) = x.
C3_RoundTrip ==
    (pc = "parsed" /\ ~IsOther(code) /\ EventIdUnambiguous(code)) => parsed = Ok(code)

\* C3: an official code with all three components, the largest round number and a
\* string event id has gone through format and parse
C3_Witness ==
    /\ pc = "parsed"
    /\ ~parse_puzzle_type
    /\ code = Official(EventActivityCode(<<"3", "3", "3">>, Some(U32Max), Some(U32Of(2)),
                                         Some(255)))
    /\ text = <<"3", "3", "3", "-", "r", "4", "2", "9", "4", "9", "6", "7", "2", "9", "5", "-", "g", "2", "-", "a", "2", "5", "5">>
    /\ parsed = Ok(code)

(***************************************************************************)
(* Strings as bytes: str::len and the slices &s[a..b] count UTF-8 bytes    *)
(***************************************************************************)
\* a character outside ASCII (two bytes in UTF-8); every other character of the
\* model is ASCII
MultiByteChars == {"U+00C9"}
\* char::len_utf8
Utf8Len(c) == IF c \in MultiByteChars THEN 2 ELSE 1

\* str::len: the length in bytes
RECURSIVE ByteLen(_)
ByteLen(s) == IF s = <<>> THEN 0 ELSE Utf8Len(Head(s)) + ByteLen(Tail(s))

\* the byte offset at which character k starts
ByteOffset(s, k) == ByteLen(SubSeq(s, 1, k - 1))
\* str::is_char_boundary
IsCharBoundary(s, n) ==
    n = ByteLen(s) \/ \E k \in 1..Len(s) : ByteOffset(s, k) = n

\* &s[from..to] on boundaries: the characters that start in from..to-1
ByteSlice(s, from, to) ==
    LET idx == { k \in 1..Len(s) : from <= ByteOffset(s, k) /\ ByteOffset(s, k) < to }
    IN IF idx = {} THEN <<>>
       ELSE LET first == CHOOSE k \in idx : \A j \in idx : k <= j
            IN [i \in 1..Cardinality(idx) |-> s[first + i - 1]]

\* the ASCII characters of the model in increasing byte order
AsciiTable ==
    <<"+", "-", "0", "1", "2", "3", "4", "5", "6", "7", "8", "9",
      "A", "B", "C", "D", "E", "F", "G", "H", "I", "J", "K", "L", "M",
      "N", "O", "P", "Q", "R", "S", "T", "U", "V", "W", "X", "Y", "Z",
      "a", "b", "c", "d", "e", "f", "g", "h", "i", "j", "k", "l", "m",
      "n", "o", "p", "q", "r", "s", "t", "u", "v", "w", "x", "y", "z">>
CharCode(c) == CHOOSE i \in 1..Len(AsciiTable) : AsciiTable[i] = c

\* <String as Ord>::cmp: lexicographic on bytes
RECURSIVE StrCmp(_, _)
StrCmp(a, b) ==
    IF a = <<>> /\ b = <<>> THEN "Equal"
    ELSE IF a = <<>> THEN "Less"
    ELSE IF b = <<>> THEN "Greater"
    ELSE IF Head(a) # Head(b) THEN CmpInt(CharCode(Head(a)), CharCode(Head(b)))
    ELSE StrCmp(Tail(a), Tail(b))

(***************************************************************************)
(* WCAId                                                                   *)
(***************************************************************************)
\* struct WCAId, fields in declaration order: year (u16), discriminant (u8), name
WCAId(year, discriminant, name) ==
    [year |-> year, discriminant |-> discriminant, name |-> name]

\* enum WCAIdParseError
ParseIntError(e) == [kind |-> "ParseIntError", e |-> e]
LengthError(l) == [kind |-> "LengthError", len |-> l]

\* #[derive(Ord)] on WCAId: lexicographic in declaration order
WCAIdCmp(a, b) ==
    Then(CmpInt(a.year, b.year),
         Then(CmpInt(a.discriminant, b.discriminant), StrCmp(a.name, b.name)))

\* impl PartialOrd for WCAId
WCAIdPartialCmp(a, b) ==
    Some(Then(CmpInt(a.year, b.year),
              Then(StrCmp(a.name, b.name), CmpInt(a.discriminant, b.discriminant))))

\* {:0>2}: padded on the left with "0" to two characters, never cut
PadZero2(s) == IF Len(s) < 2 THEN [i \in 1..(2 - Len(s)) |-> "0"] \o s ELSE s

\* impl Display for WCAId
FmtWCAId(x) == FmtNat(x.year) \o x.name \o PadZero2(FmtNat(x.discriminant))

\* impl FromStr for WCAId: a slice that does not start and end on a character
\* boundary panics
WCAIdFromStr(s) ==
    IF ByteLen(s) # 10 THEN Err(LengthError(ByteLen(s)))
    ELSE IF ~IsCharBoundary(s, 4) THEN Panic
    ELSE LET year == ParseUnsigned(ByteSlice(s, 0, 4), U32Of(65535))
         IN IF ~IsOk(year) THEN Err(ParseIntError(year.err))
            ELSE IF ~IsCharBoundary(s, 8) THEN Panic
            ELSE LET name == ByteSlice(s, 4, 8)
                     discriminant == ParseUnsigned(ByteSlice(s, 8, 10), U32Of(255))
                 IN IF ~IsOk(discriminant) THEN Err(ParseIntError(discriminant.err))
                    ELSE Ok(WCAId(U32Val(year.val), U32Val(discriminant.val), name))

(***************************************************************************)
(* AssignmentCode and StaffAssignment                                      *)
(***************************************************************************)
\* enum StaffAssignment: the five keyword variants and Other(String)
StaffKeyword(k) == [role |-> k]
StaffOther(x) == [role |-> "Other", s |-> x]

\* the keyword variants and the strings Display and FromStr pair them with
StaffTable ==
    { <<"Judge", <<"j", "u", "d", "g", "e">>>>,
      <<"Scrambler", <<"s", "c", "r", "a", "m", "b", "l", "e", "r">>>>,
      <<"Runner", <<"r", "u", "n", "n", "e", "r">>>>,
      <<"DataEntry", <<"d", "a", "t", "a", "e", "n", "t", "r", "y">>>>,
      <<"Announcer", <<"a", "n", "n", "o", "u", "n", "c", "e", "r">>>> }

\* enum AssignmentCode
Competitor == [assignment |-> "Competitor"]
Staff(x) == [assignment |-> "Staff", staff |-> x]

\* impl FromStr for StaffAssignment
StaffAssignmentFromStr(s) ==
    IF \E k \in StaffTable : k[2] = s
    THEN Ok(StaffKeyword((CHOOSE k \in StaffTable : k[2] = s)[1]))
    ELSE Ok(StaffOther(s))

\* AssignmentCodeFromStr without the test on the length
AssignmentCodeFromStr_EmptyRestAccepted(s) ==
    IF s = <<"c", "o", "m", "p", "e", "t", "i", "t", "o", "r">> THEN Ok(Competitor)
    ELSE IF StartsWith(s, <<"s", "t", "a", "f", "f", "-">>)
    THEN LET x == StaffAssignmentFromStr(SkipChars(s, 6))
         IN IF IsOk(x) THEN Ok(Staff(x.val)) ELSE x
    ELSE Err("invalid staff assignment")

\* impl FromStr for AssignmentCode
AssignmentCodeFromStr(s) ==
    IF s = <<"c", "o", "m", "p", "e", "t", "i", "t", "o", "r">> THEN Ok(Competitor)
    ELSE IF StartsWith(s, <<"s", "t", "a", "f", "f", "-">>) /\ ByteLen(s) > 6
    THEN LET x == StaffAssignmentFromStr(SkipChars(s, 6))
         IN IF IsOk(x) THEN Ok(Staff(x.val)) ELSE x
    ELSE Err("invalid staff assignment")

(***************************************************************************)
(* RoundId                                                                 *)
(***************************************************************************)
\* struct RoundId<EventId>
RoundId(e, r) == [event |-> e, round |-> r]

\* impl FromStr for RoundId<EventId>; typed as for EventIdFromStr
RoundIdFromStr(s, typed) ==
    IF \A i \in 1..Len(s) : s[i] # "-" THEN Err("invalid format")
    ELSE LET i == CHOOSE j \in 1..Len(s) : s[j] = "-" /\ \A k \in 1..(j - 1) : s[k] # "-"
             event == SubSeq(s, 1, i - 1)
             round == SubSeq(s, i + 1, Len(s))
             event_id == EventIdFromStr(event, typed)
         IN IF ~IsOk(event_id) THEN event_id
            ELSE IF ~StartsWith(round, <<"r">>) THEN Err("missing round prefix")
            ELSE LET round_id == ParseUnsigned(SkipChars(round, 1), U32Max)
                 IN IF ~IsOk(round_id) THEN round_id
                    ELSE Ok(RoundId(event_id.val, round_id.val))

(***************************************************************************)
(* Specification of the string decoders: an input string is handed to one  *)
(* of the FromStr implementations.                                         *)
(***************************************************************************)
\* the tokens that follow the event token of an activity code, at most MaxTokens
MaxTokens == 3

TokenSamples ==
    { <<"r", "1">>, <<"g", "2">>, <<"a", "3">>, <<"x", "5">>, <<"r", "x">>,
      <<"a", "2", "5", "5">>, <<"a", "2", "5", "6">>,
      <<"r", "4", "2", "9", "4", "9", "6", "7", "2", "9", "5">> }
TokenEvents == { <<"3", "3", "3">>, <<"x">>, <<>> }

\* the event token and the tokens after it, joined by "-"
RECURSIVE JoinTokens(_, _)
JoinTokens(e, ts) ==
    IF ts = <<>> THEN e ELSE JoinTokens(e \o <<"-">> \o Head(ts), Tail(ts))

GrammarStrings ==
    { JoinTokens(e, ts) :
        e \in TokenEvents, ts \in UNION { [1..k -> TokenSamples] : k \in 0..MaxTokens } }

\* unofficial codes, WCA ids and assignment codes, well-formed and not
FixedStrings ==
    { <<>>,
      <<"o", "t", "h", "e", "r", "-", "r", "e", "g", "i", "s", "t", "r", "a", "t", "i", "o", "n">>,
      <<"o", "t", "h", "e", "r", "-", "c", "h", "e", "c", "k", "i", "n">>,
      <<"o", "t", "h", "e", "r", "-", "t", "u", "t", "o", "r", "i", "a", "l">>,
      <<"o", "t", "h", "e", "r", "-", "m", "u", "l", "t", "i">>,
      <<"o", "t", "h", "e", "r", "-", "b", "r", "e", "a", "k", "f", "a", "s", "t">>,
      <<"o", "t", "h", "e", "r", "-", "l", "u", "n", "c", "h">>,
      <<"o", "t", "h", "e", "r", "-", "d", "i", "n", "n", "e", "r">>,
      <<"o", "t", "h", "e", "r", "-", "a", "w", "a", "r", "d", "s">>,
      <<"o", "t", "h", "e", "r", "-", "m", "i", "s", "c">>,
      <<"o", "t", "h", "e", "r", "-", "m", "i", "s", "c", "-", "f", "o", "o">>,
      <<"o", "t", "h", "e", "r", "-", "m", "i", "s", "c", "-">>,
      <<"o", "t", "h", "e", "r", "-", "m", "i", "s", "c", "x">>,
      <<"o", "t", "h", "e", "r", "-", "u", "n", "o", "f", "f", "i", "c", "i", "a", "l", "-", "x", "-", "r", "1">>,
      <<"o", "t", "h", "e", "r", "-", "u", "n", "o", "f", "f", "i", "c", "i", "a", "l", "-", "x", "-", "r", "x">>,
      <<"o", "t", "h", "e", "r", "-", "u", "n", "o", "f", "f", "i", "c", "i", "a", "l", "-">>,
      <<"o", "t", "h", "e", "r", "-", "u", "n", "o", "f", "f", "i", "c", "i", "a", "l", "x">>,
      <<"o", "t", "h", "e", "r", "-", "f", "o", "o">>,
      <<"o", "t", "h", "e", "r", "-">>,
      <<"o", "t", "h", "e", "r">>,
      <<"o", "t", "h", "e", "r", "-", "l", "u", "n", "c", "h", "-", "r", "1">>,
      <<"2", "0", "1", "5", "D", "O", "E", "J", "0", "1">>,
      <<"2", "0", "1", "5", "D", "O", "E", "J", "0">>,
      <<"2", "0", "1", "5", "D", "O", "E", "J", "0", "1", "1">>,
      <<"2", "0", "1", "5", "D", "O", "U+00C9", "J", "0", "1">>,
      <<"2", "0", "1", "5", "D", "O", "U+00C9", "0", "1">>,
      <<"2", "0", "1", "U+00C9", "D", "O", "E", "J", "1">>,
      <<"2", "0", "1", "5", "D", "O", "E", "U+00C9", "1">>,
      <<"2", "0", "a", "5", "D", "O", "E", "J", "0", "1">>,
      <<"2", "0", "1", "5", "D", "O", "E", "J", "0", "x">>,
      <<"+", "0", "1", "5", "D", "O", "E", "J", "+", "1">>,
      <<"U+00C9">>,
      <<"c", "o", "m", "p", "e", "t", "i", "t", "o", "r">>,
      <<"s", "t", "a", "f", "f", "-", "j", "u", "d", "g", "e">>,
      <<"s", "t", "a", "f", "f", "-", "s", "c", "r", "a", "m", "b", "l", "e", "r">>,
      <<"s", "t", "a", "f", "f", "-", "r", "u", "n", "n", "e", "r">>,
      <<"s", "t", "a", "f", "f", "-", "d", "a", "t", "a", "e", "n", "t", "r", "y">>,
      <<"s", "t", "a", "f", "f", "-", "a", "n", "n", "o", "u", "n", "c", "e", "r">>,
      <<"s", "t", "a", "f", "f", "-">>,
      <<"s", "t", "a", "f", "f", "-", "f", "o", "o">>,
      <<"s", "t", "a", "f", "f">>,
      <<"j", "u", "d", "g", "e">>,
      <<"c", "o", "m", "p", "e", "t", "i", "t", "o", "r", "s">>,
      <<"s", "t", "a", "f", "f", "-", "U+00C9">> }

InputStrings == GrammarStrings \cup FixedStrings

InitDecode ==
    /\ pc = "start"
    /\ overflow_checks = FALSE
    /\ parse_puzzle_type \in BOOLEAN
    /\ text \in InputStrings
    /\ parsed = Nil /\ code = Nil
    /\ wire = Nil /\ attempt = Nil /\ wire_out = Nil /\ multi = Nil /\ multi_out = Nil
    /\ lhs = Nil /\ rhs = Nil /\ ordering = Nil

\* ActivityCode::from_str(&text)
DecodeActivityCode ==
    /\ pc = "start"
    /\ parsed' = ActivityCodeFromStr(text)
    /\ pc' = "activity_code"
    /\ UNCHANGED <<overflow_checks, parse_puzzle_type, wire, attempt, wire_out, multi,
                   multi_out, lhs, rhs, ordering, code, text>>

\* EventActivityCode::<String>::from_str(&text)
DecodeEventActivityCode ==
    /\ pc = "start"
    /\ parsed' = EventActivityCodeFromStr(text, FALSE)
    /\ pc' = "event_activity_code"
    /\ UNCHANGED <<overflow_checks, parse_puzzle_type, wire, attempt, wire_out, multi,
                   multi_out, lhs, rhs, ordering, code, text>>

\* RoundId::<EventId>::from_str(&text)
DecodeRoundId ==
    /\ pc = "start"
    /\ parsed' = RoundIdFromStr(text, TRUE)
    /\ pc' = "round_id"
    /\ UNCHANGED <<overflow_checks, parse_puzzle_type, wire, attempt, wire_out, multi,
                   multi_out, lhs, rhs, ordering, code, text>>

\* WCAId::from_str(&text)
DecodeWCAId ==
    /\ pc = "start"
    /\ parsed' = WCAIdFromStr(text)
    /\ pc' = "wca_id"
    /\ UNCHANGED <<overflow_checks, parse_puzzle_type, wire, attempt, wire_out, multi,
                   multi_out, lhs, rhs, ordering, code, text>>

\* AssignmentCode::from_str(&text)
DecodeAssignmentCode ==
    /\ pc = "start"
    /\ parsed' = AssignmentCodeFromStr(text)
    /\ pc' = "assignment_code"
    /\ UNCHANGED <<overflow_checks, parse_puzzle_type, wire, attempt, wire_out, multi,
                   multi_out, lhs, rhs, ordering, code, text>>

NextDecode ==
    \/ DecodeActivityCode
    \/ DecodeEventActivityCode
    \/ DecodeRoundId
    \/ DecodeWCAId
    \/ DecodeAssignmentCode

SpecDecode == InitDecode /\ [][NextDecode]_vars

(***************************************************************************)
(* Claims about the activity-code parsers (under SpecDecode)               *)
(***************************************************************************)
\* the input was parsed by the official grammar: EventActivityCode::from_str, or
\* ActivityCode::from_str on a text without the prefix "other-"
OfficialParse ==
    \/ pc = "event_activity_code"
    \/ pc = "activity_code" /\ ~StartsWith(text, <<"o", "t", "h", "e", "r", "-">>)
\* the value an official parse returns for the code c
OfficialValue(c) == IF pc = "activity_code" THEN Ok(Official(c)) ELSE Ok(c)

\* the input split at its hyphens: the event token and the tokens after it
Tokens == Split(text)
HasPrefix(t, p) == t # <<>> /\ t[1] = p
\* the position after a round token and a group token, where they are present
AfterRound == IF Len(Tokens) >= 2 /\ HasPrefix(Tokens[2], "r") THEN 3 ELSE 2
AfterGroup ==
    IF Len(Tokens) >= AfterRound /\ HasPrefix(Tokens[AfterRound], "g")
    THEN AfterRound + 1 ELSE AfterRound
\* a further token is present and does not start with "a"
StrayToken == Len(Tokens) >= AfterGroup /\ ~HasPrefix(Tokens[AfterGroup], "a")

\* C11, as stated: when an official activity code is parsed and, after the event
\* token and the consumed round and group tokens, a further token is present that
\* does not start with "a", the parse returns a failure.
C11_StrayTokenFails ==
    (OfficialParse /\ StrayToken) => parsed.tag = "Err"

\* a token is a prefix letter and a decimal number that fits: r and g a u32, a a u8
TokenRank(t) ==
    IF HasPrefix(t, "r") THEN 1 ELSE IF HasPrefix(t, "g") THEN 2
    ELSE IF HasPrefix(t, "a") THEN 3 ELSE 0
TokenNumber(t) ==
    ParseDigits(Tail(t), 1, U32Of(0), IF TokenRank(t) = 3 THEN U32Of(255) ELSE U32Max)
WellFormedToken(t) ==
    /\ TokenRank(t) > 0
    /\ Len(t) > 1
    /\ \A i \in 2..Len(t) : IsDigit(t[i])
    /\ IsOk(TokenNumber(t))
\* the text is e[-rR][-gG][-aA]: the tokens after the event are well formed and in
\* the order round, group, attempt, each at most once
WellFormedCode ==
    \A i \in 2..Len(Tokens) :
        /\ WellFormedToken(Tokens[i])
        /\ i > 2 => TokenRank(Tokens[i - 1]) < TokenRank(Tokens[i])
\* the number given for the component of rank k, or its absence
Component(k) ==
    IF \E i \in 2..Len(Tokens) : TokenRank(Tokens[i]) = k
    THEN Some(TokenNumber(Tokens[CHOOSE i \in 2..Len(Tokens) : TokenRank(Tokens[i]) = k]).val)
    ELSE None
ComponentU8(k) == IF IsSome(Component(k)) THEN Some(U32Val(Unwrap(Component(k)))) ELSE None
\* the event token is one the event id type has: any string, or one of the
\* official ids where ActivityCode is built on OfficialEventId
EventTokenKnown ==
    (pc = "activity_code" /\ parse_puzzle_type) => Tokens[1] \in OfficialEventIds

\* C12: parsing e[-rR][-gG][-aA], with e free of hyphens and any subset of the
\* components in the order round, group, attempt, gives the code with event e and
\* exactly those components set to the given numbers; a skipped component is
\* absent, and the components after it are still parsed.
C12_WellFormedParse ==
    (OfficialParse /\ WellFormedCode /\ EventTokenKnown) =>
        parsed = OfficialValue(EventActivityCode(Tokens[1], Component(1), Component(2),
                                                 ComponentU8(3)))

\* C12: "x-g2-a3", without a round, has been parsed to group 2 and attempt 3
C12_Witness ==
    /\ pc = "event_activity_code"
    /\ text = <<"x", "-", "g", "2", "-", "a", "3">>
    /\ WellFormedCode
    /\ parsed = Ok(EventActivityCode(<<"x">>, None, Some(U32Of(2)), Some(3)))

\* the text after the prefix "other-"
Rest == SkipChars(text, 6)
UnofficialParse == pc = "activity_code" /\ StartsWith(text, <<"o", "t", "h", "e", "r", "-">>)

\* C13: after "other-", each of the eight keywords parses to its own variant, "misc"
\* to Misc(None), "misc-<label>" to Misc(Some(label)), and every string that is none
\* of these and does not start with "unofficial-" to Other(string), without failing.
C13_UnofficialParse ==
    UnofficialParse =>
        /\ Rest = <<"r", "e", "g", "i", "s", "t", "r", "a", "t", "i", "o", "n">>
              => parsed = Ok(Unofficial(Keyword("Registration")))
        /\ Rest = <<"c", "h", "e", "c", "k", "i", "n">>
              => parsed = Ok(Unofficial(Keyword("Checkin")))
        /\ Rest = <<"t", "u", "t", "o", "r", "i", "a", "l">>
              => parsed = Ok(Unofficial(Keyword("Tutorial")))
        /\ Rest = <<"m", "u", "l", "t", "i">>
              => parsed = Ok(Unofficial(Keyword("MultiSubmission")))
        /\ Rest = <<"b", "r", "e", "a", "k", "f", "a", "s", "t">>
              => parsed = Ok(Unofficial(Keyword("Breakfast")))
        /\ Rest = <<"l", "u", "n", "c", "h">>
              => parsed = Ok(Unofficial(Keyword("Lunch")))
        /\ Rest = <<"d", "i", "n", "n", "e", "r">>
              => parsed = Ok(Unofficial(Keyword("Dinner")))
        /\ Rest = <<"a", "w", "a", "r", "d", "s">>
              => parsed = Ok(Unofficial(Keyword("Awards")))
        /\ Rest = <<"m", "i", "s", "c">> => parsed = Ok(Unofficial(Misc(None)))
        /\ StartsWith(Rest, <<"m", "i", "s", "c", "-">>)
              => parsed = Ok(Unofficial(Misc(Some(SkipChars(Rest, 5)))))
        /\ (
           /\ Rest # <<"r", "e", "g", "i", "s", "t", "r", "a", "t", "i", "o", "n">>
           /\ Rest # <<"c", "h", "e", "c", "k", "i", "n">>
           /\ Rest # <<"t", "u", "t", "o", "r", "i", "a", "l">>
           /\ Rest # <<"m", "u", "l", "t", "i">>
           /\ Rest # <<"b", "r", "e", "a", "k", "f", "a", "s", "t">>
           /\ Rest # <<"l", "u", "n", "c", "h">>
           /\ Rest # <<"d", "i", "n", "n", "e", "r">>
           /\ Rest # <<"a", "w", "a", "r", "d", "s">>
           /\ Rest # <<"m", "i", "s", "c">>
           /\ ~StartsWith(Rest, <<"m", "i", "s", "c", "-">>)
           /\ ~StartsWith(Rest, <<"u", "n", "o", "f", "f", "i", "c", "i", "a", "l", "-">>)
           ) => parsed = Ok(Unofficial(Other(Rest)))

\* C13: "other-misc-foo" has been parsed to Misc(Some("foo"))
C13_Witness ==
    /\ UnofficialParse
    /\ text = <<"o", "t", "h", "e", "r", "-", "m", "i", "s", "c", "-", "f", "o", "o">>
    /\ parsed = Ok(Unofficial(Misc(Some(<<"f", "o", "o">>))))

(***************************************************************************)
(* Specification of the WCAId codec: a WCAId is formatted and the text is  *)
(* parsed back.                                                            *)
(***************************************************************************)
\* years of one to five digits, discriminants of one to three, names of four
\* characters
YearSamples == {0, 5, 999, 1000, 2015, 9999, 10000, 65535}
DiscriminantSamples == {0, 1, 9, 10, 99, 100, 255}
NameSamples == { <<"D", "O", "E", "J">>, <<"A", "A", "A", "A">>, <<"0", "1", "2", "3">>, <<"D", "O", "U+00C9", "J">> }
WCAIdSamples ==
    { WCAId(y, d, n) : y \in YearSamples, d \in DiscriminantSamples, n \in NameSamples }

InitWCAId ==
    /\ pc = "start"
    /\ overflow_checks = FALSE
    /\ parse_puzzle_type = FALSE
    /\ code \in WCAIdSamples
    /\ text = Nil /\ parsed = Nil
    /\ wire = Nil /\ attempt = Nil /\ wire_out = Nil /\ multi = Nil /\ multi_out = Nil
    /\ lhs = Nil /\ rhs = Nil /\ ordering = Nil

\* code.to_string()
FormatWCAId ==
    /\ pc = "start"
    /\ text' = FmtWCAId(code)
    /\ pc' = "formatted"
    /\ UNCHANGED <<overflow_checks, parse_puzzle_type, wire, attempt, wire_out, multi,
                   multi_out, lhs, rhs, ordering, code, parsed>>

\* WCAId::from_str(&text)
ParseWCAId ==
    /\ pc = "formatted"
    /\ parsed' = WCAIdFromStr(text)
    /\ pc' = "parsed"
    /\ UNCHANGED <<overflow_checks, parse_puzzle_type, wire, attempt, wire_out, multi,
                   multi_out, lhs, rhs, ordering, code, text>>

NextWCAId == FormatWCAId \/ ParseWCAId

SpecWCAId == InitWCAId /\ [][NextWCAId]_vars

\* C16, as stated: for every WCAId x, with any u16 year, any u8 discriminant and any
\* name of four characters, parse(format(x)) = x.
C16_WCAIdRoundTrip ==
    pc = "parsed" => parsed = Ok(code)

(***************************************************************************)
(* Specification of the WCAId order: two ids are compared by cmp and by    *)
(* partial_cmp.                                                            *)
(***************************************************************************)
WCAIdOrderSamples ==
    { WCAId(y, d, n) : y \in {2015, 2016}, d \in {1, 2, 10},
                       n \in { <<"A", "A", "A", "A">>, <<"A", "A", "A", "B">>, <<"D", "O", "E", "J">>, <<"D", "o", "e", "j">> } }

InitWCAIdOrder ==
    /\ pc = "start"
    /\ overflow_checks = FALSE
    /\ parse_puzzle_type = FALSE
    /\ lhs \in WCAIdOrderSamples
    /\ rhs \in WCAIdOrderSamples
    /\ ordering = Nil
    /\ wire = Nil /\ attempt = Nil /\ wire_out = Nil /\ multi = Nil /\ multi_out = Nil
    /\ code = Nil /\ text = Nil /\ parsed = Nil

\* lhs.cmp(&rhs), the order sort() uses
CompareWCAId ==
    /\ pc = "start"
    /\ ordering' = WCAIdCmp(lhs, rhs)
    /\ pc' = "cmp"
    /\ UNCHANGED <<overflow_checks, parse_puzzle_type, wire, attempt, wire_out, multi, multi_out,
                   lhs, rhs, code, text, parsed>>

\* lhs.partial_cmp(&rhs)
PartialCompareWCAId ==
    /\ pc = "start"
    /\ ordering' = WCAIdPartialCmp(lhs, rhs)
    /\ pc' = "partial_cmp"
    /\ UNCHANGED <<overflow_checks, parse_puzzle_type, wire, attempt, wire_out, multi, multi_out,
                   lhs, rhs, code, text, parsed>>

NextWCAIdOrder == CompareWCAId \/ PartialCompareWCAId

SpecWCAIdOrder == InitWCAIdOrder /\ [][NextWCAIdOrder]_vars

\* the order by year, then by name, then by discriminant
ByYearNameDiscriminant(a, b) ==
    IF a.year # b.year THEN CmpInt(a.year, b.year)
    ELSE IF a.name # b.name THEN StrCmp(a.name, b.name)
    ELSE CmpInt(a.discriminant, b.discriminant)

\* C18, as stated: cmp and partial_cmp of WCAId both compare the year first, then
\* the name, then the discriminant.
C18_YearNameDiscriminant ==
    /\ pc = "cmp" => ordering = ByYearNameDiscriminant(lhs, rhs)
    /\ pc = "partial_cmp" => ordering = Some(ByYearNameDiscriminant(lhs, rhs))

(***************************************************************************)
(* Claims about the identifier decoders (under SpecDecode)                 *)
(***************************************************************************)
IsLengthError(r) == r.tag = "Err" /\ r.err.kind = "LengthError"

\* C17, as stated: WCAId::from_str returns LengthError for every input that is not
\* exactly 10 characters long, multi-byte characters included, and never returns
\* LengthError for an input of exactly 10 characters.
C17_LengthInCharacters ==
    pc = "wca_id" => (IsLengthError(parsed) <=> Len(text) # 10)

\* the staff assignment the text after "staff-" stands for
StaffOf(rest) ==
    IF rest = <<"j", "u", "d", "g", "e">> THEN StaffKeyword("Judge") ELSE
    IF rest = <<"s", "c", "r", "a", "m", "b", "l", "e", "r">> THEN StaffKeyword("Scrambler") ELSE
    IF rest = <<"r", "u", "n", "n", "e", "r">> THEN StaffKeyword("Runner") ELSE
    IF rest = <<"d", "a", "t", "a", "e", "n", "t", "r", "y">> THEN StaffKeyword("DataEntry") ELSE
    IF rest = <<"a", "n", "n", "o", "u", "n", "c", "e", "r">> THEN StaffKeyword("Announcer") ELSE
    StaffOther(rest)

\* C19: "competitor" decodes to Competitor; "staff-" followed by a rest that is not
\* empty decodes to Staff of the rest, the five keywords giving their variants and
\* any other rest Other(rest); every other input, "staff-" alone included, fails with
\* the invalid-assignment error.
C19_AssignmentDecode ==
    pc = "assignment_code" =>
        IF text = <<"c", "o", "m", "p", "e", "t", "i", "t", "o", "r">> THEN parsed = Ok(Competitor)
        ELSE IF StartsWith(text, <<"s", "t", "a", "f", "f", "-">>) /\ Len(text) > 6
        THEN parsed = Ok(Staff(StaffOf(SkipChars(text, 6))))
        ELSE parsed = Err("invalid staff assignment")

\* C19: "staff-" with an empty rest has been refused
C19_Witness ==
    /\ pc = "assignment_code"
    /\ text = <<"s", "t", "a", "f", "f", "-">>
    /\ parsed = Err("invalid staff assignment")

\* C20, as stated: no input string makes a string decoder panic; each returns a
\* value or an error value.
C20_NoDecoderPanics ==
    pc # "start" => ~IsPanic(parsed)

(***************************************************************************)
(* Specification of the attempt-result round trip: an AttemptResult with a *)
(* time payload is serialized, the integer is deserialized, and the result *)
(* is serialized again.                                                    *)
(***************************************************************************)
\* every variant, and Success of 0, of the raw samples and of u32::MAX
ResultSamples ==
    {Skipped, DNF, DNS} \cup { Success(u) : u \in RawSamples \cup {U32Of(0), U32Max} }

InitRoundTrip ==
    /\ pc = "start"
    /\ overflow_checks = FALSE
    /\ parse_puzzle_type = FALSE
    /\ lhs \in ResultSamples
    /\ wire = Nil /\ attempt = Nil /\ wire_out = Nil
    /\ multi = Nil /\ multi_out = Nil /\ rhs = Nil /\ ordering = Nil
    /\ code = Nil /\ text = Nil /\ parsed = Nil

\* serde_json::to_value(&lhs): serialize_i64 writes an integer scalar
EncodeResult ==
    /\ pc = "start"
    /\ wire' = [kind |-> "int", n |-> SerializeAttemptResult(lhs)]
    /\ pc' = "encoded"
    /\ UNCHANGED <<overflow_checks, parse_puzzle_type, attempt, wire_out, multi, multi_out,
                   lhs, rhs, ordering, code, text, parsed>>

\* AttemptResult::deserialize of the scalar written
DecodeEncoded ==
    /\ pc = "encoded"
    /\ attempt' = DeserializeAttemptResult(wire, "CentiSeconds")
    /\ pc' = "decoded"
    /\ UNCHANGED <<overflow_checks, parse_puzzle_type, wire, wire_out, multi, multi_out,
                   lhs, rhs, ordering, code, text, parsed>>

\* the decoded result is serialized
EncodeAgain ==
    /\ pc = "decoded"
    /\ IsOk(attempt)
    /\ wire_out' = SerializeAttemptResult(attempt.val)
    /\ pc' = "encoded_again"
    /\ UNCHANGED <<overflow_checks, parse_puzzle_type, wire, attempt, multi, multi_out,
                   lhs, rhs, ordering, code, text, parsed>>

NextRoundTrip == EncodeResult \/ DecodeEncoded \/ EncodeAgain

SpecRoundTrip == InitRoundTrip /\ [][NextRoundTrip]_vars

\* C21: for every AttemptResult x with a time payload (Skipped, DNF, DNS, Success(v)
\* for every u32 v, 0 included), decode(encode(x)) does not fail and
\* encode(decode(encode(x))) = encode(x).
C21_EncodeDecodeEncode ==
    /\ pc = "decoded" => IsOk(attempt)
    /\ pc = "encoded_again" => wire_out = wire.n

\* C21: Success(0) has been written as 0, read back as Skipped and written as 0
C21_Witness ==
    /\ pc = "encoded_again"
    /\ lhs = Success(U32Of(0))
    /\ attempt = Ok(Skipped)
    /\ wire_out = I64Of(0)

(***************************************************************************)
(* Display of a move-count result                                          *)
(***************************************************************************)
\* {:0<2}: aligned to the left and filled with "0" on the right to two characters,
\* never cut
FillZeroRight2(s) == IF Len(s) < 2 THEN s \o [i \in 1..(2 - Len(s)) |-> "0"] ELSE s

\* impl Display for AttemptResult<FMCAttemptResultValue>, with fmt_or_else
FmtFmcResult(r) ==
    CASE r.kind = "Skipped" -> <<>>
      [] r.kind = "DNF" -> <<"D", "N", "F">>
      [] r.kind = "DNS" -> <<"D", "N", "S">>
      [] r.kind = "Success" ->
            IF r.v > 80
            THEN FmtNat(r.v \div 100) \o <<".">> \o FillZeroRight2(FmtNat(r.v % 100))
            ELSE FmtNat(r.v)

(***************************************************************************)
(* Specification of the move-count display: a result is formatted.         *)
(***************************************************************************)
\* move counts 0..MaxMoves, and two large ones
MaxMoves == 150

FmcSamples ==
    {Skipped, DNF, DNS} \cup { Success(v) : v \in (0..MaxMoves) \cup {2105, 65535} }

InitDisplay ==
    /\ pc = "start"
    /\ overflow_checks = FALSE
    /\ parse_puzzle_type = FALSE
    /\ lhs \in FmcSamples
    /\ text = Nil
    /\ wire = Nil /\ attempt = Nil /\ wire_out = Nil /\ multi = Nil /\ multi_out = Nil
    /\ rhs = Nil /\ ordering = Nil /\ code = Nil /\ parsed = Nil

\* lhs.to_string()
DisplayFmc ==
    /\ pc = "start"
    /\ text' = FmtFmcResult(lhs)
    /\ pc' = "displayed"
    /\ UNCHANGED <<overflow_checks, parse_puzzle_type, wire, attempt, wire_out, multi,
                   multi_out, lhs, rhs, ordering, code, parsed>>

NextDisplay == DisplayFmc

SpecDisplay == InitDisplay /\ [][NextDisplay]_vars

\* C22, as stated: Success(v) with v <= 80 is rendered as the decimal integer v; with
\* v > 80 as floor(v / 100), a dot, then the tens digit and the units digit of v.
C22_MoveCountDisplay ==
    (pc = "displayed" /\ is_success(lhs)) =>
        IF lhs.v <= 80 THEN text = FmtNat(lhs.v)
        ELSE text = FmtNat(lhs.v \div 100)
                    \o <<".", DigitChars[((lhs.v \div 10) % 10) + 1],
                         DigitChars[(lhs.v % 10) + 1]>>

(***************************************************************************)
(* Specification of the total order of results: two attempt results are    *)
(* compared by cmp, the order of sort, min and max, and by partial_cmp.    *)
(***************************************************************************)
\* lhs.cmp(&rhs) and lhs.partial_cmp(&rhs) on AttemptResult<CentiSeconds>
SortCentiSeconds ==
    /\ pc = "start"
    /\ ordering' = [cmp |-> AttemptCmp(lhs, rhs, "CentiSeconds"),
                    partial_cmp |-> AttemptPartialCmp(lhs, rhs, "CentiSeconds")]
    /\ pc' = "sort_centiseconds"
    /\ UNCHANGED <<overflow_checks, parse_puzzle_type, wire, attempt, wire_out, multi, multi_out,
                   lhs, rhs, code, text, parsed>>

\* the same on the to_fmc() of both
SortFmc ==
    /\ pc = "start"
    /\ ordering' = [cmp |-> AttemptCmp(to_fmc(lhs), to_fmc(rhs), "FMC"),
                    partial_cmp |-> AttemptPartialCmp(to_fmc(lhs), to_fmc(rhs), "FMC")]
    /\ pc' = "sort_fmc"
    /\ UNCHANGED <<overflow_checks, parse_puzzle_type, wire, attempt, wire_out, multi, multi_out,
                   lhs, rhs, code, text, parsed>>

\* the same on the to_multi_blind() of both
SortMultiBlind ==
    /\ pc = "start"
    /\ ordering' = [cmp |-> AttemptCmp(to_multi_blind(lhs), to_multi_blind(rhs),
                                       "MultiBlind"),
                    partial_cmp |-> AttemptPartialCmp(to_multi_blind(lhs),
                                                      to_multi_blind(rhs), "MultiBlind")]
    /\ pc' = "sort_multi_blind"
    /\ UNCHANGED <<overflow_checks, parse_puzzle_type, wire, attempt, wire_out, multi, multi_out,
                   lhs, rhs, code, text, parsed>>

\* cmp and partial_cmp of MultiBlindAttemptResultValue on the payloads of two
\* successes
SortMultiBlindValue ==
    /\ pc = "start"
    /\ is_success(lhs) /\ is_success(rhs)
    /\ ordering' = [cmp |-> MultiBlindCmp(MultiBlindFrom(lhs.v), MultiBlindFrom(rhs.v)),
                    partial_cmp |-> MultiBlindPartialCmp(MultiBlindFrom(lhs.v),
                                                         MultiBlindFrom(rhs.v))]
    /\ pc' = "sort_multi_blind_value"
    /\ UNCHANGED <<overflow_checks, parse_puzzle_type, wire, attempt, wire_out, multi, multi_out,
                   lhs, rhs, code, text, parsed>>

NextTotalOrder == SortCentiSeconds \/ SortFmc \/ SortMultiBlind \/ SortMultiBlindValue

SpecTotalOrder == InitRank /\ [][NextTotalOrder]_vars

\* C26, as stated: for every pair of AttemptResult values of any payload type, and
\* every pair of multi-blind values, cmp(a, b) is the outcome of partial_cmp(a, b).
C26_CmpIsPartialCmp ==
    pc # "start" => ordering.partial_cmp = Some(ordering.cmp)

(***************************************************************************)
(* Specification of parse-then-format: an input string is parsed as an     *)
(* official activity code and the code is formatted.                       *)
(***************************************************************************)
\* the grammar strings, and numbers written with a leading zero or a sign
ReformatStrings ==
    GrammarStrings \cup { <<"3", "3", "3", "-", "r", "0", "1">>, <<"3", "3", "3", "-", "r", "+", "1">>, <<"3", "3", "3", "-", "g", "2", "-", "a", "0", "3">> }

InitReformat ==
    /\ pc = "start"
    /\ overflow_checks = FALSE
    /\ parse_puzzle_type = FALSE
    /\ text \in ReformatStrings
    /\ parsed = Nil /\ code = Nil /\ wire_out = Nil
    /\ wire = Nil /\ attempt = Nil /\ multi = Nil /\ multi_out = Nil
    /\ lhs = Nil /\ rhs = Nil /\ ordering = Nil

\* EventActivityCode::<String>::from_str(&text)
ParseCode ==
    /\ pc = "start"
    /\ parsed' = EventActivityCodeFromStr(text, FALSE)
    /\ pc' = "parsed_code"
    /\ UNCHANGED <<overflow_checks, parse_puzzle_type, wire, attempt, wire_out, multi,
                   multi_out, lhs, rhs, ordering, code, text>>

\* the code parsed is formatted: code.to_string()
FormatParsed ==
    /\ pc = "parsed_code"
    /\ IsOk(parsed)
    /\ code' = parsed.val
    /\ wire_out' = FmtEventActivityCode(parsed.val)
    /\ pc' = "reformatted"
    /\ UNCHANGED <<overflow_checks, parse_puzzle_type, wire, attempt, multi,
                   multi_out, lhs, rhs, ordering, text, parsed>>

NextReformat == ParseCode \/ FormatParsed

SpecReformat == InitReformat /\ [][NextReformat]_vars

\* C27, as stated: for every string s that the official activity-code parser
\* accepts, format(parse(s)) = s; no token of s is dropped.
C27_FormatInvertsParse ==
    pc = "reformatted" => wire_out = text

====
